---- MODULE Spec2Model ----
(***************************************************************************)
(* A state-machine model of lambdaLearn's class-incremental Replay         *)
(* orchestrator (Algorithm/ClassIncrementalLearning/Replay.py) and of the  *)
(* EMA, Bn_Controller and indexing helpers of lambdaLearn/utils.py.        *)
(***************************************************************************)
EXTENDS Integers, Sequences, FiniteSets, TLC

\* ------------------------------------------------------------------------
\* Bounds of the model
\* ------------------------------------------------------------------------
\* number of tasks the data manager holds
MaxTasks == 3
\* largest number of classes one task introduces
MaxTaskSize == 2
\* largest configured total exemplar capacity (config.memory_size)
MaxMemorySize == 3
\* largest configured per-class exemplar capacity (config.memory_per_class)
MaxMemoryPerClass == 2
\* largest number of training samples the data manager holds per class
MaxClassSamples == 2
\* epochs of one training loop (config.init_epoch, config.epochs)
NumEpochs == 2
\* largest tensor entry
MaxVal == 1

VARIABLES
    \* ---- Replay (and the fields it inherits) ----
    cur_task,        \* self._cur_task
    known_classes,   \* self._known_classes
    total_classes,   \* self._total_classes
    fc_out,          \* output width of self._network's classifier
    wrapped,         \* self._network is an nn.DataParallel wrapper
    memory,          \* exemplar memory: exemplars held per class, by class
    train_memory,    \* the memory appended to the current train_dataset
    schedule,        \* the schedule _train dispatched to last
    epoch,           \* epochs done by the running training loop
    pc,              \* position inside incremental_train
    last_op,         \* how the last call on the orchestrator ended
    pre,             \* the persistent fields when incremental_train was entered
    mem_writes,      \* rebuilds of the memory since incremental_train was entered
    \* ---- configuration and data manager ----
    multiple_gpus,   \* len(config.device)
    fixed_memory,    \* per-class capacity mode (else total-capacity mode)
    memory_size,     \* config.memory_size
    memory_per_class,\* config.memory_per_class
    task_size,       \* data_manager.get_task_size(self._cur_task), once asked
    class_samples,   \* training samples the data manager holds per class
    \* ---- EMA ----
    requires_grad,   \* param.requires_grad, by parameter name
    heap,            \* the tensors: their entries, by tensor
    live,            \* the tensor param.data is, by parameter name
    shadow,          \* self.shadow: the tensor held, by name (NoTensor: no key)
    backup,          \* self.backup: the tensor held, by name (NoTensor: no key)
    applied,         \* apply_shadow was called and restore has not returned since
    ema_last,        \* the last step (apply_shadow, restore or another) and whether it raised
    pre_apply,       \* the live entries before the apply_shadow just made or just restored
    \* ---- Bn_Controller ----
    bn_stats,        \* the running statistics of each model's batch-norm layers
    bn_backup,       \* self.backup: the entry saved, by key (NoStat: no key)
    bn_shared,       \* the statistic's tensor is the one self.backup holds
    bn_frozen,       \* the model frozen last, no unfreeze_bn since ("none": none)
    bn_last,         \* the last step on the controller or a model
    \* ---- indexing ----
    idx_data,        \* the data argument of the indexing call
    idx_i,           \* the index argument of the indexing call, as passed
    idx_norm,        \* i after normalize_numpy_indices
    idx_method,      \* the indexing method get_indexing_method chose
    idx_result,      \* what the call returned or raised
    idx_pc           \* position inside indexing

replay_vars == <<cur_task, known_classes, total_classes, fc_out, wrapped, memory,
                 train_memory, schedule, epoch, pc, last_op, pre, mem_writes>>
config_vars == <<multiple_gpus, fixed_memory, memory_size, memory_per_class,
                 task_size, class_samples>>

ema_vars == <<requires_grad, heap, live, shadow, backup, applied,
              ema_last, pre_apply>>

bn_vars == <<bn_stats, bn_backup, bn_shared, bn_frozen, bn_last>>

idx_vars == <<idx_data, idx_i, idx_norm, idx_method, idx_result, idx_pc>>

vars == <<replay_vars, config_vars, ema_vars, bn_vars, idx_vars>>

\* ------------------------------------------------------------------------
\* Helpers
\* ------------------------------------------------------------------------
Min(a, b) == IF a <= b THEN a ELSE b

RECURSIVE SumSeq(_)
SumSeq(s) == IF s = <<>> THEN 0 ELSE Head(s) + SumSeq(Tail(s))

\* self.exemplar_size: the number of exemplars held
exemplar_size == SumSeq(memory)

\* self.samples_per_class: the per-class budget of the configured policy
samples_per_class ==
    IF fixed_memory THEN memory_per_class
    ELSE memory_size \div total_classes

\* the memory build_rehearsal_memory leaves: for every class seen so far, at
\* most per_class exemplars of it, the prior memory replaced entirely
rehearsal_memory(per_class) ==
    [c \in 1..total_classes |-> Min(per_class, class_samples)]

\* the persistent fields of the orchestrator
Persistent ==
    [cur_task |-> cur_task, known_classes |-> known_classes,
     total_classes |-> total_classes, memory |-> memory]

\* ------------------------------------------------------------------------
\* Initial state: Replay.__init__
\* ------------------------------------------------------------------------
ReplayInit ==
    /\ cur_task = -1
    /\ known_classes = 0
    /\ total_classes = 0
    /\ fc_out = 0
    /\ wrapped = FALSE
    /\ memory = <<>>
    /\ train_memory = <<>>
    /\ schedule = "none"
    /\ epoch = 0
    /\ pc = "idle"
    /\ last_op = "none"
    /\ pre = [cur_task |-> -1, known_classes |-> 0, total_classes |-> 0,
              memory |-> <<>>]
    /\ mem_writes = 0

ConfigInit ==
    /\ multiple_gpus \in 1..2
    /\ fixed_memory \in BOOLEAN
    /\ memory_size \in 1..MaxMemorySize
    /\ memory_per_class \in 1..MaxMemoryPerClass
    /\ task_size = 0
    /\ class_samples \in 1..MaxClassSamples

\* ------------------------------------------------------------------------
\* Replay.after_task
\* ------------------------------------------------------------------------
after_task ==
    /\ pc = "idle"
    /\ known_classes' = total_classes
    /\ last_op' = IF last_op = "trained" THEN "closed" ELSE "after_task"
    /\ UNCHANGED <<cur_task, total_classes, fc_out, wrapped, memory, train_memory,
                   schedule, epoch, pc, pre, mem_writes>>
    /\ UNCHANGED <<config_vars, ema_vars, bn_vars, idx_vars>>

\* ------------------------------------------------------------------------
\* Replay.incremental_train, statement by statement
\* ------------------------------------------------------------------------
\* an exception leaves incremental_train: nothing is caught, nothing undone
Raise ==
    /\ pc' = "idle"
    /\ last_op' = "failed"

\* a variant of new_total_classes that counts on from total_classes
new_total_classes_accumulated(size) == total_classes + size

\* lines 37-39: the class count with the new task's classes
new_total_classes(size) == known_classes + size

\* lines 36-40: class accounting and classifier expansion, the data manager
\* reporting any size for the new task.  update_fc is a method of the bare
\* network: looked up on an nn.DataParallel wrapper it raises AttributeError.
begin_task ==
    \E size \in 1..MaxTaskSize :
        /\ pc = "idle"
        /\ cur_task + 1 < MaxTasks
        /\ pre' = Persistent
        /\ mem_writes' = 0
        /\ cur_task' = cur_task + 1
        /\ task_size' = size
        /\ total_classes' = new_total_classes(size)
        /\ IF wrapped
           THEN Raise /\ UNCHANGED fc_out
           ELSE /\ fc_out' = total_classes'
                /\ pc' = "expanded"
                /\ last_op' = "running"
        /\ UNCHANGED <<known_classes, wrapped, memory, train_memory, schedule, epoch>>
        /\ UNCHANGED <<multiple_gpus, fixed_memory, memory_size, memory_per_class,
                       class_samples>>
        /\ UNCHANGED <<ema_vars, bn_vars, idx_vars>>

\* lines 45-60: the train set over the new classes with the memory appended,
\* and the test set
build_loaders ==
    /\ pc = "expanded"
    /\ train_memory' = memory
    /\ pc' = "loaded"
    /\ UNCHANGED <<cur_task, known_classes, total_classes, fc_out, wrapped, memory,
                   schedule, epoch, last_op, pre, mem_writes>>
    /\ UNCHANGED <<config_vars, ema_vars, bn_vars, idx_vars>>

\* lines 63-64: wrap the network when several devices are configured
wrap_network ==
    /\ pc = "loaded"
    /\ wrapped' = IF multiple_gpus > 1 THEN TRUE ELSE wrapped
    /\ pc' = "wrapped"
    /\ UNCHANGED <<cur_task, known_classes, total_classes, fc_out, memory,
                   train_memory, schedule, epoch, last_op, pre, mem_writes>>
    /\ UNCHANGED <<config_vars, ema_vars, bn_vars, idx_vars>>

\* a variant of train_schedule that dispatches on the known class count
train_schedule_by_known == IF known_classes = 0 THEN "init" ELSE "update"

\* the schedule Replay._train chooses (lines 73, 84)
train_schedule == IF cur_task = 0 THEN "init" ELSE "update"

\* lines 65, 71-94: _train dispatches on the task index
train_dispatch ==
    /\ pc = "wrapped"
    /\ schedule' = train_schedule
    /\ epoch' = 0
    /\ pc' = "training"
    /\ UNCHANGED <<cur_task, known_classes, total_classes, fc_out, wrapped, memory,
                   train_memory, last_op, pre, mem_writes>>
    /\ UNCHANGED <<config_vars, ema_vars, bn_vars, idx_vars>>

\* a variant of train_epoch that rebuilds the memory at the end of each epoch
train_epoch_rebuilding ==
    /\ pc = "training"
    /\ epoch < NumEpochs
    /\ epoch' = epoch + 1
    /\ memory' = rehearsal_memory(samples_per_class)
    /\ mem_writes' = mem_writes + 1
    /\ UNCHANGED <<cur_task, known_classes, total_classes, fc_out, wrapped,
                   train_memory, schedule, pc, last_op, pre>>
    /\ UNCHANGED <<config_vars, ema_vars, bn_vars, idx_vars>>

\* one epoch of _init_train / _update_representation (lines 98-130, 137-171)
train_epoch ==
    /\ pc = "training"
    /\ epoch < NumEpochs
    /\ epoch' = epoch + 1
    /\ UNCHANGED <<cur_task, known_classes, total_classes, fc_out, wrapped, memory,
                   train_memory, schedule, pc, last_op, pre, mem_writes>>
    /\ UNCHANGED <<config_vars, ema_vars, bn_vars, idx_vars>>

\* a variant of train_done that unwraps the network as soon as _train returns
train_done_unwrapping ==
    /\ pc = "training"
    /\ epoch = NumEpochs
    /\ wrapped' = IF multiple_gpus > 1 THEN FALSE ELSE wrapped
    /\ pc' = "trained"
    /\ UNCHANGED <<cur_task, known_classes, total_classes, fc_out, memory,
                   train_memory, schedule, epoch, last_op, pre, mem_writes>>
    /\ UNCHANGED <<config_vars, ema_vars, bn_vars, idx_vars>>

\* the training loop has run all its epochs: _train returns (line 65)
train_done ==
    /\ pc = "training"
    /\ epoch = NumEpochs
    /\ pc' = "trained"
    /\ UNCHANGED <<cur_task, known_classes, total_classes, fc_out, wrapped, memory,
                   train_memory, schedule, epoch, last_op, pre, mem_writes>>
    /\ UNCHANGED <<config_vars, ema_vars, bn_vars, idx_vars>>

\* a variant of rehearsal_budget that hands over the whole capacity
rehearsal_budget_whole == memory_size

\* the per-class budget line 67 hands to build_rehearsal_memory
rehearsal_budget == samples_per_class

\* line 67: self.build_rehearsal_memory(data_manager, self.samples_per_class)
build_rehearsal_memory ==
    /\ pc = "trained"
    /\ memory' = rehearsal_memory(rehearsal_budget)
    /\ mem_writes' = mem_writes + 1
    /\ pc' = "built"
    /\ UNCHANGED <<cur_task, known_classes, total_classes, fc_out, wrapped,
                   train_memory, schedule, epoch, last_op, pre>>
    /\ UNCHANGED <<config_vars, ema_vars, bn_vars, idx_vars>>

\* lines 68-69: unwrap the network; incremental_train returns
unwrap_network ==
    /\ pc = "built"
    /\ wrapped' = IF multiple_gpus > 1 THEN FALSE ELSE wrapped
    /\ pc' = "idle"
    /\ last_op' = "trained"
    /\ UNCHANGED <<cur_task, known_classes, total_classes, fc_out, memory,
                   train_memory, schedule, epoch, pre, mem_writes>>
    /\ UNCHANGED <<config_vars, ema_vars, bn_vars, idx_vars>>

\* data_manager.get_dataset raises (lines 46-57)
fail_dataset ==
    /\ pc = "expanded"
    /\ Raise
    /\ UNCHANGED <<cur_task, known_classes, total_classes, fc_out, wrapped, memory,
                   train_memory, schedule, epoch, pre, mem_writes>>
    /\ UNCHANGED <<config_vars, ema_vars, bn_vars, idx_vars>>

\* a batch of the training loop raises (line 65)
fail_training ==
    /\ pc = "training"
    /\ epoch < NumEpochs
    /\ Raise
    /\ UNCHANGED <<cur_task, known_classes, total_classes, fc_out, wrapped, memory,
                   train_memory, schedule, epoch, pre, mem_writes>>
    /\ UNCHANGED <<config_vars, ema_vars, bn_vars, idx_vars>>

\* build_rehearsal_memory raises (line 67)
fail_memory ==
    /\ pc = "trained"
    /\ Raise
    /\ UNCHANGED <<cur_task, known_classes, total_classes, fc_out, wrapped, memory,
                   train_memory, schedule, epoch, pre, mem_writes>>
    /\ UNCHANGED <<config_vars, ema_vars, bn_vars, idx_vars>>

incremental_train ==
    \/ begin_task
    \/ build_loaders
    \/ wrap_network
    \/ train_dispatch
    \/ train_epoch
    \/ train_done
    \/ build_rehearsal_memory
    \/ unwrap_network
    \/ fail_dataset
    \/ fail_training
    \/ fail_memory

\* ------------------------------------------------------------------------
\* utils.EMA over a model whose parameters are tensors of one entry
\* ------------------------------------------------------------------------
\* model.named_parameters(), in order
ParamNames == <<"weight", "bias">>
Names == {ParamNames[i] : i \in 1..Len(ParamNames)}
Values == 0..MaxVal
\* live, shadow and backup hold at most one tensor each per name, and a clone
\* is made while the tensor it replaces is still held
TensorIds == 1..(3 * Len(ParamNames) + 1)
NoTensor == 0

\* the EMA and its model as one value: what a method reads and writes
EmaState ==
    [heap |-> heap, live |-> live, shadow |-> shadow, backup |-> backup,
     err |-> FALSE]

\* the tensors that can still be reached
Referenced(st) ==
    ({st.live[n] : n \in Names} \cup {st.shadow[n] : n \in Names}
        \cup {st.backup[n] : n \in Names}) \ {NoTensor}

\* a tensor that is not in use
FreshId(st) ==
    CHOOSE i \in TensorIds :
        /\ i \notin Referenced(st)
        /\ \A j \in TensorIds : j \notin Referenced(st) => i <= j

\* a new tensor with entry v
NewTensor(st, v) == [st EXCEPT !.heap[FreshId(st)] = v]

\* the tensors in use, in the order live, shadow, backup, each once
RefSeq(st) ==
    [i \in 1..Len(ParamNames) |-> st.live[ParamNames[i]]]
        \o [i \in 1..Len(ParamNames) |-> st.shadow[ParamNames[i]]]
        \o [i \in 1..Len(ParamNames) |-> st.backup[ParamNames[i]]]

RECURSIVE Distinct(_, _)
Distinct(s, acc) ==
    IF s = <<>> THEN acc
    ELSE IF Head(s) = NoTensor \/ \E k \in 1..Len(acc) : acc[k] = Head(s)
         THEN Distinct(Tail(s), acc)
         ELSE Distinct(Tail(s), Append(acc, Head(s)))

\* tensors nothing refers to are gone; those in use are numbered in the order
\* of RefSeq (which tensor is which carries no meaning beyond who shares it)
Collect(st) ==
    LET order == Distinct(RefSeq(st), <<>>)
        num(id) == IF id = NoTensor THEN NoTensor
                   ELSE CHOOSE k \in 1..Len(order) : order[k] = id
    IN [st EXCEPT
          !.heap = [i \in TensorIds |->
                       IF i <= Len(order) THEN st.heap[order[i]] ELSE 0],
          !.live = [n \in Names |-> num(st.live[n])],
          !.shadow = [n \in Names |-> num(st.shadow[n])],
          !.backup = [n \in Names |-> num(st.backup[n])]]

\* no entries recorded
NoValues == [n \in Names |-> -1]

\* the entry of every live parameter
LiveValues(st) == [n \in Names |-> st.heap[st.live[n]]]

\* the entry of every tensor the backup holds (-1: no key)
BackupValues(st) ==
    [n \in Names |-> IF st.backup[n] = NoTensor THEN -1 ELSE st.heap[st.backup[n]]]

\* (1.0 - self.decay) * param.data + self.decay * self.shadow[name], for a
\* decay between 0 and 1: the entries from the one to the other
new_averages(param, shadow_value) ==
    {v \in Values : \/ (param <= v /\ v <= shadow_value)
                    \/ (shadow_value <= v /\ v <= param)}

\* EMA.register, one parameter (lines 407-408)
register_param(st, n) ==
    IF requires_grad[n]
    THEN [NewTensor(st, st.heap[st.live[n]]) EXCEPT !.shadow[n] = FreshId(st)]
    ELSE st

RECURSIVE register_loop(_, _)
register_loop(st, i) ==
    IF i > Len(ParamNames) \/ st.err THEN st
    ELSE register_loop(register_param(st, ParamNames[i]), i + 1)

\* EMA.load, one parameter of ema_model (line 403)
load_param(st, n, v) == [NewTensor(st, v) EXCEPT !.shadow[n] = FreshId(st)]

RECURSIVE load_loop(_, _, _)
load_loop(st, ema_model, i) ==
    IF i > Len(ParamNames) \/ st.err THEN st
    ELSE load_loop(load_param(st, ParamNames[i], ema_model[ParamNames[i]]),
                   ema_model, i + 1)

\* EMA.update, one parameter (lines 412-415), the average coming out as avg
update_param(st, n, avg) ==
    IF ~requires_grad[n] THEN st
    ELSE IF st.shadow[n] = NoTensor THEN [st EXCEPT !.err = TRUE]
    ELSE [NewTensor(st, avg) EXCEPT !.shadow[n] = FreshId(st)]

RECURSIVE update_loop(_, _, _)
update_loop(st, avgs, i) ==
    IF i > Len(ParamNames) \/ st.err THEN st
    ELSE update_loop(update_param(st, ParamNames[i], avgs[ParamNames[i]]),
                     avgs, i + 1)

\* what update may compute for each parameter (any entry where update does
\* not reach the average)
Averages ==
    {avgs \in [Names -> Values] :
        \A n \in Names :
            IF requires_grad[n] /\ shadow[n] # NoTensor
            THEN avgs[n] \in new_averages(heap[live[n]], heap[shadow[n]])
            ELSE avgs[n] = 0}

\* a variant of apply_param that swaps the parameter in before backing it up
apply_param_swap_first(st, n) ==
    IF ~requires_grad[n] THEN st
    ELSE IF st.shadow[n] = NoTensor THEN [st EXCEPT !.err = TRUE]
    ELSE [st EXCEPT !.live[n] = st.shadow[n], !.backup[n] = st.shadow[n]]

\* EMA.apply_shadow, one parameter (lines 419-422): the backup and the live
\* parameter take the tensors themselves, not copies
apply_param(st, n) ==
    IF ~requires_grad[n] THEN st
    ELSE IF st.shadow[n] = NoTensor THEN [st EXCEPT !.err = TRUE]
    ELSE [st EXCEPT !.backup[n] = st.live[n], !.live[n] = st.shadow[n]]

RECURSIVE apply_loop(_, _)
apply_loop(st, i) ==
    IF i > Len(ParamNames) \/ st.err THEN st
    ELSE apply_loop(apply_param(st, ParamNames[i]), i + 1)

\* a variant of restore_param that skips a name the backup does not hold
restore_param_unchecked(st, n) ==
    IF ~requires_grad[n] \/ st.backup[n] = NoTensor THEN st
    ELSE [st EXCEPT !.live[n] = st.backup[n]]

\* EMA.restore, one parameter (lines 426-428)
restore_param(st, n) ==
    IF ~requires_grad[n] THEN st
    ELSE IF st.backup[n] = NoTensor THEN [st EXCEPT !.err = TRUE]
    ELSE [st EXCEPT !.live[n] = st.backup[n]]

RECURSIVE restore_loop(_, _)
restore_loop(st, i) ==
    IF i > Len(ParamNames) \/ st.err THEN st
    ELSE restore_loop(restore_param(st, ParamNames[i]), i + 1)

\* EMA.restore (lines 424-429): the backup is cleared after the loop
restore_result(st) ==
    LET r == restore_loop(st, 1)
    IN IF r.err THEN r ELSE [r EXCEPT !.backup = [n \in Names |-> NoTensor]]

\* the state a step leaves, and the record of the step
EmaStep(op, st) ==
    /\ LET c == Collect(st)
       IN /\ heap' = c.heap
          /\ live' = c.live
          /\ shadow' = c.shadow
          /\ backup' = c.backup
    /\ ema_last' = [op |-> op, err |-> st.err]
    /\ pre_apply' =
          IF op = "apply_shadow" /\ ~st.err THEN LiveValues(EmaState)
          ELSE IF op = "restore" /\ ema_last = [op |-> "apply_shadow", err |-> FALSE]
               THEN pre_apply
               ELSE NoValues
    /\ UNCHANGED <<replay_vars, config_vars, bn_vars, idx_vars>>

\* EMA.__init__ (lines 395-399) on a model with parameters of any entries
EMAInit ==
    /\ requires_grad \in [Names -> BOOLEAN]
    /\ \E v \in [Names -> Values] :
          /\ live = [n \in Names |-> CHOOSE i \in 1..Len(ParamNames) : ParamNames[i] = n]
          /\ heap = [i \in TensorIds |->
                        IF i <= Len(ParamNames) THEN v[ParamNames[i]] ELSE 0]
    /\ shadow = [n \in Names |-> NoTensor]
    /\ backup = [n \in Names |-> NoTensor]
    /\ applied = FALSE
    /\ ema_last = [op |-> "init", err |-> FALSE]
    /\ pre_apply = NoValues

\* no EMA in use
EMAIdle ==
    /\ requires_grad = [n \in Names |-> TRUE]
    /\ live = [n \in Names |-> CHOOSE i \in 1..Len(ParamNames) : ParamNames[i] = n]
    /\ heap = [i \in TensorIds |-> 0]
    /\ shadow = [n \in Names |-> NoTensor]
    /\ backup = [n \in Names |-> NoTensor]
    /\ applied = FALSE
    /\ ema_last = [op |-> "init", err |-> FALSE]
    /\ pre_apply = NoValues

\* EMA.register (lines 405-408)
register ==
    /\ EmaStep("other", register_loop(EmaState, 1))
    /\ UNCHANGED <<applied, requires_grad>>

\* EMA.load (lines 401-403) from a model with parameters of any entries
load ==
    \E ema_model \in [Names -> Values] :
        /\ EmaStep("other", load_loop(EmaState, ema_model, 1))
        /\ UNCHANGED <<applied, requires_grad>>

\* EMA.update (lines 410-415)
update ==
    \E avgs \in Averages :
        /\ EmaStep("other", update_loop(EmaState, avgs, 1))
        /\ UNCHANGED <<applied, requires_grad>>

\* EMA.apply_shadow (lines 417-422)
apply_shadow ==
    LET st == apply_loop(EmaState, 1)
    IN /\ EmaStep("apply_shadow", st)
       /\ applied' = TRUE
       /\ UNCHANGED requires_grad

\* EMA.restore (lines 424-429)
restore ==
    LET st == restore_result(EmaState)
    IN /\ EmaStep("restore", st)
       /\ applied' = IF st.err THEN applied ELSE FALSE
       /\ UNCHANGED requires_grad

\* optimizer.step() (Replay.py line 109): a trainable parameter is updated in
\* place, so whatever holds the same tensor sees the new entry
optimizer_step ==
    \E n \in Names, v \in Values :
        /\ requires_grad[n]
        /\ v # heap[live[n]]
        /\ EmaStep("other", [EmaState EXCEPT !.heap[live[n]] = v])
        /\ UNCHANGED <<applied, requires_grad>>

\* a parameter of the model is frozen or unfrozen between two calls: every
\* method reads param.requires_grad anew (lines 407, 412, 419, 426)
set_requires_grad ==
    \E n \in Names :
        /\ EmaStep("other", EmaState)
        /\ requires_grad' = [requires_grad EXCEPT ![n] = ~requires_grad[n]]
        /\ UNCHANGED applied

\* ------------------------------------------------------------------------
\* utils.Bn_Controller over models whose statistics are tensors of one entry
\* ------------------------------------------------------------------------
\* the models the controller is applied to, and model.named_modules()
\* restricted to the batch-norm layers
Models == {"plain", "net"}
BnLayers(m) == IF m = "net" THEN <<"bn1">> ELSE <<>>
\* the statistics saved per layer, in the order freeze_bn saves them
BnStats == <<"running_mean", "running_var", "num_batches_tracked">>
NoStat == -1

\* name + ".running_mean", ...: the keys of a model, in order
RECURSIVE BnKeysFrom(_, _)
BnKeysFrom(m, i) ==
    IF i > Len(BnLayers(m)) THEN <<>>
    ELSE [j \in 1..Len(BnStats) |-> <<BnLayers(m)[i], BnStats[j]>>]
            \o BnKeysFrom(m, i + 1)
BnKeys(m) == BnKeysFrom(m, 1)
BnKeySet(m) == {BnKeys(m)[i] : i \in 1..Len(BnKeys(m))}
AllBnKeys == UNION {BnKeySet(m) : m \in Models}

\* the controller and the models as one value
BnState ==
    [stats |-> bn_stats, backup |-> bn_backup, shared |-> bn_shared, err |-> FALSE]

\* an in-place write of v to statistic k of model m reaches every holder of
\* the same tensor
write_stat(st, m, k, v) ==
    IF st.shared[m][k]
    THEN [st EXCEPT
            !.backup[k] = v,
            !.stats = [m2 \in Models |-> [k2 \in BnKeySet(m2) |->
                          IF k2 = k /\ st.shared[m2][k2] THEN v
                          ELSE st.stats[m2][k2]]]]
    ELSE [st EXCEPT !.stats[m][k] = v]

\* freeze_bn, one key (lines 486-488): a clone of the statistic is saved
freeze_key(st, m, k) ==
    [st EXCEPT
        !.backup[k] = st.stats[m][k],
        !.shared = [m2 \in Models |-> [k2 \in BnKeySet(m2) |->
                       IF k2 = k THEN FALSE ELSE st.shared[m2][k2]]]]

RECURSIVE freeze_loop(_, _, _)
freeze_loop(st, m, i) ==
    IF i > Len(BnKeys(m)) \/ st.err THEN st
    ELSE freeze_loop(freeze_key(st, m, BnKeys(m)[i]), m, i + 1)

\* a variant of freeze_result without the assertion
freeze_result_unasserted(st, m) == freeze_loop(st, m, 1)

\* Bn_Controller.freeze_bn (lines 482-488)
freeze_result(st, m) ==
    IF \E k \in AllBnKeys : st.backup[k] # NoStat
    THEN [st EXCEPT !.err = TRUE]
    ELSE freeze_loop(st, m, 1)

\* unfreeze_bn, one key (lines 493-495): the statistic becomes the saved
\* tensor itself; a key the backup does not hold raises KeyError
unfreeze_key(st, m, k) ==
    IF st.backup[k] = NoStat THEN [st EXCEPT !.err = TRUE]
    ELSE [st EXCEPT !.stats[m][k] = st.backup[k], !.shared[m][k] = TRUE]

RECURSIVE unfreeze_loop(_, _, _)
unfreeze_loop(st, m, i) ==
    IF i > Len(BnKeys(m)) \/ st.err THEN st
    ELSE unfreeze_loop(unfreeze_key(st, m, BnKeys(m)[i]), m, i + 1)

\* Bn_Controller.unfreeze_bn (lines 490-495): the backup is kept
unfreeze_result(st, m) == unfreeze_loop(st, m, 1)

RECURSIVE forward_loop(_, _, _, _)
forward_loop(st, m, new, i) ==
    IF i > Len(BnKeys(m)) THEN st
    ELSE forward_loop(write_stat(st, m, BnKeys(m)[i], new[BnKeys(m)[i]]),
                      m, new, i + 1)

BnStep(op, m, st) ==
    /\ bn_stats' = st.stats
    /\ bn_backup' = st.backup
    /\ bn_shared' = st.shared
    /\ bn_last' = [op |-> op, model |-> m, err |-> st.err]
    /\ UNCHANGED <<replay_vars, config_vars, ema_vars, idx_vars>>

\* Bn_Controller.__init__ (lines 476-480), and models with any statistics
BnInit ==
    /\ \E v \in [AllBnKeys -> Values] :
          bn_stats = [m \in Models |-> [k \in BnKeySet(m) |-> v[k]]]
    /\ bn_backup = [k \in AllBnKeys |-> NoStat]
    /\ bn_shared = [m \in Models |-> [k \in BnKeySet(m) |-> FALSE]]
    /\ bn_frozen = "none"
    /\ bn_last = [op |-> "init", model |-> "none", err |-> FALSE]

\* no controller in use
BnIdle ==
    /\ bn_stats = [m \in Models |-> [k \in BnKeySet(m) |-> 0]]
    /\ bn_backup = [k \in AllBnKeys |-> NoStat]
    /\ bn_shared = [m \in Models |-> [k \in BnKeySet(m) |-> FALSE]]
    /\ bn_frozen = "none"
    /\ bn_last = [op |-> "init", model |-> "none", err |-> FALSE]

\* Bn_Controller.freeze_bn(model)
freeze_bn(m) ==
    LET st == freeze_result(BnState, m)
    IN /\ BnStep("freeze_bn", m, st)
       /\ bn_frozen' = IF st.err THEN bn_frozen ELSE m

\* Bn_Controller.unfreeze_bn(model)
unfreeze_bn(m) ==
    LET st == unfreeze_result(BnState, m)
    IN /\ BnStep("unfreeze_bn", m, st)
       /\ bn_frozen' = "none"

\* a forward pass in training mode (Replay.py lines 99, 104): every batch-norm
\* layer updates its running statistics in place
forward(m) ==
    \E new \in [BnKeySet(m) -> Values] :
        /\ BnKeySet(m) # {}
        /\ new # bn_stats[m]
        /\ BnStep("forward", m, forward_loop(BnState, m, new, 1))
        /\ UNCHANGED bn_frozen

\* ------------------------------------------------------------------------
\* indexing (utils.py): Python values
\* ------------------------------------------------------------------------
\* A Python value is a record: its kind ("None", "int", "slice", "list" (a
\* list of numbers), "lists" (a list of containers), "tuple", "ndarray",
\* "dict", or the exception raised), the dtype of an ndarray, the keys of a
\* dict in insertion order, and its items.  A boolean array holds 0 and 1.
PyValue(kind, dtype, keys, items) ==
    [kind |-> kind, dtype |-> dtype, keys |-> keys, items |-> items]

PyNone == PyValue("None", "", <<>>, <<>>)

PyInt(n) == PyValue("int", "", <<>>, <<n>>)

\* slice(start, stop)
PySlice(start, stop) == PyValue("slice", "", <<>>, <<start, stop>>)

PyList(items) == PyValue("list", "", <<>>, items)

PyLists(items) == PyValue("lists", "", <<>>, items)

PyTuple(items) == PyValue("tuple", "", <<>>, items)

\* a one-dimensional numpy array; dtype "int" is np.dtype(int), "int16" an
\* integer dtype that is not, "bool" a mask
PyArray(dtype, items) == PyValue("ndarray", dtype, <<>>, items)

PyDict(keys, items) == PyValue("dict", "", keys, items)

PyRaise(exception) == PyValue(exception, "", <<>>, <<>>)

Raised(value) == value.kind \in {"TypeError", "IndexError"}

\* the first of a set of positions
First(positions) == CHOOSE j \in positions : \A k \in positions : j <= k

\* the offset a sequence of n items gives the integer k (negative k counts
\* from the end), or n when k is out of range
Position(n, k) ==
    IF k < 0 THEN (IF k + n >= 0 THEN k + n ELSE n)
    ELSE (IF k < n THEN k ELSE n)

\* seq[start:stop] for non-negative start and stop
Sliced(items, start, stop) ==
    LET n == Len(items)
        lo == IF start < n THEN start ELSE n
        hi == IF stop < n THEN stop ELSE n
    IN  SubSeq(items, lo + 1, hi)

\* a plain list subscripted by i: an integer or a slice, nothing else
list_getitem(v, i) ==
    IF i.kind = "int"
    THEN LET p == Position(Len(v.items), i.items[1])
         IN  IF p = Len(v.items) THEN PyRaise("IndexError")
             ELSE IF v.kind = "lists" THEN v.items[p + 1]
             ELSE PyInt(v.items[p + 1])
    ELSE IF i.kind = "slice"
    THEN PyValue(v.kind, v.dtype, <<>>, Sliced(v.items, i.items[1], i.items[2]))
    ELSE PyRaise("TypeError")

\* a one-dimensional array subscripted by a sequence of integers
ndarray_take(v, ks) ==
    IF \E j \in 1..Len(ks) : Position(Len(v.items), ks[j]) = Len(v.items)
    THEN PyRaise("IndexError")
    ELSE PyArray(v.dtype,
                 [j \in 1..Len(ks) |-> v.items[Position(Len(v.items), ks[j]) + 1]])

\* the offsets at which a one-dimensional mask is true, from offset p - 1 on
RECURSIVE nonzero_from(_, _)
nonzero_from(mask, p) ==
    IF p > Len(mask) THEN <<>>
    ELSE (IF mask[p] # 0 THEN <<p - 1>> ELSE <<>>) \o nonzero_from(mask, p + 1)

\* ndarray.nonzero(): a tuple with one array of offsets per dimension
nonzero(mask) == <<nonzero_from(mask, 1)>>

\* a one-dimensional array subscripted by i
ndarray_getitem(v, i) ==
    IF i.kind = "int"
    THEN LET p == Position(Len(v.items), i.items[1])
         IN  IF p = Len(v.items) THEN PyRaise("IndexError")
             ELSE PyInt(v.items[p + 1])
    ELSE IF i.kind = "slice"
    THEN PyArray(v.dtype, Sliced(v.items, i.items[1], i.items[2]))
    ELSE IF i.kind = "list" \/ (i.kind = "ndarray" /\ i.dtype # "bool")
    THEN ndarray_take(v, i.items)
    ELSE IF i.kind = "ndarray"
    THEN (IF Len(i.items) # Len(v.items) THEN PyRaise("IndexError")
          ELSE ndarray_take(v, nonzero(i.items)[1]))
    ELSE IF i.kind = "tuple"
    THEN (IF Len(i.items) = 0 THEN v
          ELSE IF Len(i.items) = 1 THEN ndarray_take(v, i.items[1].items)
          ELSE PyRaise("IndexError"))
    ELSE PyRaise("IndexError")

\* v[i]
getitem(v, i) ==
    IF v.kind = "ndarray" THEN ndarray_getitem(v, i)
    ELSE IF v.kind \in {"list", "lists"} THEN list_getitem(v, i)
    ELSE PyRaise("TypeError")

\* ------------------------------------------------------------------------
\* indexing (utils.py lines 24-114)
\* ------------------------------------------------------------------------
\* longest data sequence
MaxLen == 3
\* longest index list or index array
MaxIdxLen == 2

\* an indexing method: the function's name and, for the partial application
\* of indexing_list_tuple_of_data, the methods bound to indexings; a name
\* that is an exception stands for get_indexing_method raising it
Method(name, indexings) == [name |-> name, indexings |-> indexings]

NoMethod == Method("None", <<>>)

\* lines 24-25
indexing_none(data, i) == PyNone

\* lines 28-29: every value subscripted by i itself; the comprehension stops
\* at the first value that raises
indexing_dict(data, i) ==
    LET values == [j \in 1..Len(data.items) |-> getitem(data.items[j], i)]
        bad == {j \in 1..Len(values) : Raised(values[j])}
    IN  IF bad # {} THEN values[First(bad)]
        ELSE PyDict(data.keys, values)

\* lines 54-64; the index kinds drawn here never reach safe_indexing
indexing_other(data, i) ==
    IF i.kind \in {"int", "slice", "tuple"}
    THEN getitem(data, i)
    ELSE LET elems == [j \in 1..Len(i.items) |-> getitem(data, PyInt(i.items[j]))]
             bad == {j \in 1..Len(elems) : Raised(elems[j])}
         IN  IF bad # {} THEN elems[First(bad)]
             ELSE IF data.kind = "ndarray"
             THEN PyArray(data.dtype, [j \in 1..Len(elems) |-> elems[j].items[1]])
             ELSE IF data.kind = "lists" THEN PyLists(elems)
             ELSE PyList([j \in 1..Len(elems) |-> elems[j].items[1]])

\* the variant of normalize_numpy_indices that makes a mask a flat list
normalize_numpy_indices_flat(i) ==
    IF i.kind = "ndarray" /\ i.dtype = "bool" THEN PyList(nonzero(i.items)[1])
    ELSE IF i.kind = "ndarray" /\ i.dtype = "int" THEN PyList(i.items)
    ELSE i

\* lines 99-105
normalize_numpy_indices(i) ==
    IF i.kind = "ndarray"
    THEN IF i.dtype = "bool"
         THEN PyTuple([d \in 1..Len(nonzero(i.items)) |-> PyList(nonzero(i.items)[d])])
         ELSE IF i.dtype = "int" THEN PyList(i.items)
         ELSE i
    ELSE i

RECURSIVE indexing(_, _, _)
RECURSIVE get_indexing_method(_)
RECURSIVE indexing_list_tuple_of_data(_, _, _)
RECURSIVE apply_method(_, _, _)

\* lines 32-37: len(i) raises for an integer and for a slice
indexing_list_tuple_of_data(data, i, indexings) ==
    IF i.kind \in {"int", "slice"} THEN PyRaise("TypeError")
    ELSE IF Len(i.items) = 0 THEN PyNone
    ELSE LET n == IF Len(indexings) = 0 THEN Len(data.items)
                  ELSE IF Len(indexings) < Len(data.items) THEN Len(indexings)
                  ELSE Len(data.items)
             outs == [j \in 1..n |->
                        indexing(data.items[j], i,
                                 IF Len(indexings) = 0 THEN NoMethod
                                 ELSE indexings[j])]
             bad == {j \in 1..n : Raised(outs[j])}
         IN  IF bad # {} THEN outs[First(bad)] ELSE PyLists(outs)

\* lines 71-96, for None, dicts, lists and arrays; data[0] of an empty list
\* raises IndexError, which the except clause does not catch
get_indexing_method(data) ==
    IF data.kind = "None" THEN Method("indexing_none", <<>>)
    ELSE IF data.kind = "dict" THEN Method("indexing_dict", <<>>)
    ELSE IF data.kind \in {"list", "lists"}
    THEN IF Len(data.items) = 0 THEN Method("IndexError", <<>>)
         ELSE IF data.kind = "list" THEN Method("indexing_other", <<>>)
         ELSE LET probe == indexing(data.items[1], PyInt(0), NoMethod)
                  indexings == [j \in 1..Len(data.items) |->
                                  get_indexing_method(data.items[j])]
                  bad == {j \in 1..Len(indexings) :
                            indexings[j].name \in {"TypeError", "IndexError"}}
              IN  IF probe.kind = "TypeError" THEN Method("indexing_other", <<>>)
                  ELSE IF Raised(probe) THEN Method(probe.kind, <<>>)
                  ELSE IF bad = {}
                  THEN Method("indexing_list_tuple_of_data", indexings)
                  ELSE IF indexings[First(bad)].name = "TypeError"
                  THEN Method("indexing_other", <<>>)
                  ELSE indexings[First(bad)]
    ELSE Method("indexing_other", <<>>)

\* indexing_method(data, i)
apply_method(method, data, i) ==
    IF method.name = "indexing_none" THEN indexing_none(data, i)
    ELSE IF method.name = "indexing_dict" THEN indexing_dict(data, i)
    ELSE IF method.name = "indexing_list_tuple_of_data"
    THEN indexing_list_tuple_of_data(data, i, method.indexings)
    ELSE IF method.name = "indexing_other" THEN indexing_other(data, i)
    ELSE PyRaise(method.name)

\* lines 108-114
indexing(data, i, indexing_method) ==
    IF indexing_method.name # "None"
    THEN apply_method(indexing_method, data, normalize_numpy_indices(i))
    ELSE apply_method(get_indexing_method(data), data, normalize_numpy_indices(i))

\* the keys of the dicts, and the most containers a list of containers holds
Keys == <<"a", "b">>

\* the items of the r-th sequence of n items: every item of a data value is
\* different, so that a result shows which items were selected
Row(r, n) == [p \in 1..n |-> (r - 1) * MaxLen + p]

IntDtypes == {"int", "int16"}

\* the data drawn: None, a list of numbers, an array, a list of lists, and a
\* dict of lists or of arrays
DataDrawn(data) ==
    \/ data = PyNone
    \/ \E n \in 0..MaxLen : data = PyList(Row(1, n))
    \/ \E n \in 0..MaxLen : data = PyArray("int", Row(1, n))
    \/ \E rows \in 0..Len(Keys), n \in 0..MaxLen :
          data = PyLists([r \in 1..rows |-> PyList(Row(r, n))])
    \/ \E na \in 0..MaxLen, nb \in 0..MaxLen :
          \/ data = PyDict(Keys, <<PyList(Row(1, na)), PyList(Row(2, nb))>>)
          \/ data = PyDict(Keys, <<PyArray("int", Row(1, na)),
                                   PyArray("int", Row(2, nb))>>)

\* the indices drawn: an integer, a slice, a list of integers, an integer
\* array and a boolean mask
IndexDrawn(i) ==
    \/ \E k \in (0 - MaxLen - 1)..MaxLen : i = PyInt(k)
    \/ \E start \in 0..MaxLen, stop \in 0..MaxLen : i = PySlice(start, stop)
    \/ \E n \in 0..MaxIdxLen : \E ks \in [1..n -> 0..MaxLen] :
          \/ i = PyList(ks)
          \/ \E dtype \in IntDtypes : i = PyArray(dtype, ks)
    \/ \E n \in 0..MaxLen : \E mask \in [1..n -> {0, 1}] : i = PyArray("bool", mask)

\* no call of indexing
IndexingIdle ==
    /\ idx_data = PyNone
    /\ idx_i = PyInt(0)
    /\ idx_norm = PyInt(0)
    /\ idx_method = NoMethod
    /\ idx_result = PyNone
    /\ idx_pc = "idle"

\* indexing(data, i) is called
IndexingInit ==
    /\ DataDrawn(idx_data)
    /\ IndexDrawn(idx_i)
    /\ idx_norm = idx_i
    /\ idx_method = NoMethod
    /\ idx_result = PyNone
    /\ idx_pc = "called"

\* line 109
indexing_normalize ==
    /\ idx_pc = "called"
    /\ idx_norm' = normalize_numpy_indices(idx_i)
    /\ idx_pc' = "normalized"
    /\ UNCHANGED <<idx_data, idx_i, idx_method, idx_result>>
    /\ UNCHANGED <<replay_vars, config_vars, ema_vars, bn_vars>>

\* line 114, get_indexing_method(data)
indexing_dispatch ==
    /\ idx_pc = "normalized"
    /\ idx_method' = get_indexing_method(idx_data)
    /\ IF idx_method'.name \in {"TypeError", "IndexError"}
       THEN idx_result' = PyRaise(idx_method'.name) /\ idx_pc' = "done"
       ELSE idx_result' = idx_result /\ idx_pc' = "dispatched"
    /\ UNCHANGED <<idx_data, idx_i, idx_norm>>
    /\ UNCHANGED <<replay_vars, config_vars, ema_vars, bn_vars>>

\* line 114, the method applied to data and the normalized index
indexing_apply ==
    /\ idx_pc = "dispatched"
    /\ idx_result' = apply_method(idx_method, idx_data, idx_norm)
    /\ idx_pc' = "done"
    /\ UNCHANGED <<idx_data, idx_i, idx_norm, idx_method>>
    /\ UNCHANGED <<replay_vars, config_vars, ema_vars, bn_vars>>

\* ------------------------------------------------------------------------
\* Specifications
\* ------------------------------------------------------------------------
\* the configuration when the orchestrator is not in use
ConfigIdle ==
    /\ multiple_gpus = 1
    /\ fixed_memory = FALSE
    /\ memory_size = 1
    /\ memory_per_class = 1
    /\ task_size = 0
    /\ class_samples = 1

\* the orchestrator across a sequence of tasks
Init == ReplayInit /\ ConfigInit /\ EMAIdle /\ BnIdle /\ IndexingIdle

Next == incremental_train \/ after_task

Spec == Init /\ [][Next]_vars

\* an EMA and the model it shadows
InitEMA == ReplayInit /\ ConfigIdle /\ EMAInit /\ BnIdle /\ IndexingIdle

NextEMA ==
    \/ register \/ load \/ update \/ apply_shadow \/ restore
    \/ optimizer_step \/ set_requires_grad

SpecEMA == InitEMA /\ [][NextEMA]_vars

\* a Bn_Controller and the models it is applied to
InitBn == ReplayInit /\ ConfigIdle /\ EMAIdle /\ BnInit /\ IndexingIdle

NextBn == \E m \in Models : freeze_bn(m) \/ unfreeze_bn(m) \/ forward(m)

SpecBn == InitBn /\ [][NextBn]_vars

\* a call of indexing
InitIndexing == ReplayInit /\ ConfigIdle /\ EMAIdle /\ BnIdle /\ IndexingInit

NextIndexing == indexing_normalize \/ indexing_dispatch \/ indexing_apply

SpecIndexing == InitIndexing /\ [][NextIndexing]_vars

\* ------------------------------------------------------------------------
\* Properties of the orchestrator
\* ------------------------------------------------------------------------

\* C1 (as stated): once incremental_train has returned for task t, the known
\* class count is the count before the call plus the size of task t.
C1_KnownAdvancesInTrain ==
    last_op = "trained" =>
        known_classes = pre.known_classes + task_size

\* C1 (amended): the known class count is 0 before any call; incremental_train
\* for task t leaves it unchanged and sets total_classes to it plus the size of
\* task t; the after_task that follows sets it to the count before the task
\* plus the size of task t.
C1_KnownAdvancesInAfterTask ==
    /\ last_op = "none" => known_classes = 0
    /\ last_op = "trained" =>
         /\ cur_task = pre.cur_task + 1
         /\ known_classes = pre.known_classes
         /\ total_classes = pre.known_classes + task_size
    /\ last_op = "closed" =>
         known_classes = pre.known_classes + task_size

C1_Witness ==
    /\ last_op = "closed"
    /\ cur_task = 1
    /\ pre.known_classes > 0
    /\ known_classes = pre.known_classes + task_size

\* C2: when a step of incremental_train fails, the task counter, known_classes,
\* total_classes and the exemplar memory are what they were before the call.
C2_FailureLeavesStateUnchanged ==
    last_op = "failed" => Persistent = pre

\* C3 (as stated): with several devices configured, the network is back in its
\* single-device form when build_rehearsal_memory runs.
C3_UnwrapBeforeMemory ==
    (pc \in {"trained", "built"} /\ multiple_gpus > 1) => ~wrapped

\* C3 (amended): with several devices configured, the network is still wrapped
\* while build_rehearsal_memory runs, and it is unwrapped after the rebuild,
\* before incremental_train returns.
C3_UnwrapAfterMemory ==
    /\ (pc \in {"trained", "built"} /\ multiple_gpus > 1) => wrapped
    /\ (pc \in {"trained", "built"} /\ multiple_gpus = 1) => ~wrapped
    /\ last_op \in {"trained", "closed"} => ~wrapped

C3_Witness ==
    /\ pc = "built"
    /\ multiple_gpus > 1
    /\ wrapped
    /\ mem_writes = 1

C9_DispatchNeverReturnsToInit ==
    /\ [][(pc = "wrapped" /\ pc' = "training") =>
            schedule' = IF pre.cur_task = -1 THEN "init" ELSE "update"]_vars
    /\ [][schedule = "update" => schedule' = "update"]_vars

C9_Witness ==
    /\ pc = "trained"
    /\ cur_task = 2
    /\ schedule = "update"

\* C10: between the read of the memory for the train set and the end of the
\* training loop the memory is not written, and a task that has run to its
\* end has rebuilt the memory exactly once, after the last epoch.
C10_MemoryRebuiltOnceAfterTraining ==
    /\ pc \in {"loaded", "wrapped", "training", "trained"} =>
          (mem_writes = 0 /\ memory = train_memory)
    /\ pc = "built" => (mem_writes = 1 /\ epoch = NumEpochs)
    /\ last_op = "trained" => mem_writes = 1

C10_Witness ==
    /\ pc = "built"
    /\ cur_task >= 1
    /\ mem_writes = 1
    /\ epoch = NumEpochs
    /\ memory # train_memory

\* ------------------------------------------------------------------------
\* Properties of the EMA
\* ------------------------------------------------------------------------
LiveEntries == LiveValues(EmaState)
BackupEntries == BackupValues(EmaState)
Trainable == {n \in Names : requires_grad[n]}
BackupEmpty == \A n \in Names : backup[n] = NoTensor

\* C5, on a model with a trainable parameter: an apply_shadow made after an
\* apply_shadow, with no restore in between, raises and leaves the backup as
\* it was.
C5_SecondApplyRaises ==
    [][(apply_shadow /\ applied /\ Trainable # {}) =>
          (ema_last'.err /\ BackupEntries' = BackupEntries)]_vars

\* C6 (as stated): a restore made when apply_shadow has not been called since
\* construction or since the last restore raises, whatever the model, and
\* leaves the live parameters as they were.
C6_RestoreWithoutApplyRaises ==
    [][(restore /\ ~applied) =>
          (ema_last'.err /\ LiveEntries' = LiveEntries)]_vars

\* C6 (amended): such a restore raises exactly when the model has a trainable
\* parameter (with none it returns normally); either way the live parameters
\* and the empty backup are as they were.
C6_RestoreWithoutApplyRaisesIfTrainable ==
    [][(restore /\ ~applied) =>
          /\ ema_last'.err = (Trainable # {})
          /\ LiveEntries' = LiveEntries
          /\ BackupEmpty /\ BackupEmpty']_vars

C6_Witness ==
    /\ ema_last = [op |-> "restore", err |-> TRUE]
    /\ ~applied
    /\ \E n \in Trainable : shadow[n] # NoTensor /\ heap[shadow[n]] # heap[live[n]]

\* C7: a restore made right after an apply_shadow that succeeded returns
\* normally, leaves every live parameter with the entry it had before the
\* apply_shadow, and leaves the backup empty.
C7_ApplyThenRestoreIsIdentity ==
    (ema_last.op = "restore" /\ pre_apply # NoValues) =>
        /\ ~ema_last.err
        /\ LiveEntries = pre_apply
        /\ BackupEmpty

C7_Witness ==
    /\ ema_last = [op |-> "restore", err |-> FALSE]
    /\ pre_apply = LiveEntries
    /\ BackupEmpty
    /\ \A n \in Names : requires_grad[n] /\ shadow[n] # NoTensor
    /\ \E n \in Names : heap[shadow[n]] # heap[live[n]]

DictOfListsByIntegerList ==
    /\ idx_pc = "done"
    /\ idx_data.kind = "dict"
    /\ idx_i.kind = "list"
    /\ \A j \in 1..Len(idx_data.items) :
          /\ idx_data.items[j].kind = "list"
          /\ \A p \in 1..Len(idx_i.items) :
                idx_i.items[p] < Len(idx_data.items[j].items)

\* C11 (as stated): indexing applied to a dict whose values are plain lists
\* and an integer-list index returns a dict with the same keys whose values
\* are the elements at the listed positions, in order.
C11_DictOfListsByIntegerList ==
    DictOfListsByIntegerList =>
        /\ idx_result.kind = "dict"
        /\ idx_result.keys = idx_data.keys
        /\ Len(idx_result.items) = Len(idx_data.items)
        /\ \A j \in 1..Len(idx_data.items) :
              /\ idx_result.items[j].kind = "list"
              /\ idx_result.items[j].items =
                    [p \in 1..Len(idx_i.items) |->
                        idx_data.items[j].items[idx_i.items[p] + 1]]

\* What the code does in the case of C11: indexing_dict subscripts every
\* plain list by the index list itself, which raises TypeError.
C11_DictOfListsByIntegerListRaises ==
    DictOfListsByIntegerList => idx_result = PyRaise("TypeError")

\* the case of C11 from the specification's scenarios:
\* indexing({"a": [1, 2, 3], "b": [4, 5, 6]}, [0, 2])
C11_Scenario ==
    /\ idx_pc = "done"
    /\ idx_data = PyDict(<<"a", "b">>, <<PyList(<<1, 2, 3>>), PyList(<<4, 5, 6>>)>>)
    /\ idx_i = PyList(<<0, 2>>)
    /\ idx_method.name = "indexing_dict"
    /\ idx_result = PyRaise("TypeError")

\* ks lists, in increasing order, the offsets at which the mask is true
PositionsOf(ks, mask) ==
    /\ \A j \in 1..Len(ks) : \A k \in 1..Len(ks) : j < k => ks[j] < ks[k]
    /\ {ks[j] : j \in 1..Len(ks)} = {p \in 0..(Len(mask) - 1) : mask[p + 1] = 1}

\* the index of the call was normalized
Normalized == idx_pc \in {"normalized", "dispatched", "done"}

\* C12 (as stated): before dispatch, indexing normalizes a boolean mask to
\* the plain list of positions where the mask is true (a flat list of
\* integers), and an integer numpy index array becomes the plain list of its
\* elements.
C12_MaskBecomesFlatList ==
    (Normalized /\ idx_i.kind = "ndarray") =>
        /\ idx_norm.kind = "list"
        /\ idx_i.dtype = "bool" => PositionsOf(idx_norm.items, idx_i.items)
        /\ idx_i.dtype # "bool" => idx_norm.items = idx_i.items

\* C12 (amended): before dispatch, indexing normalizes a one-dimensional
\* boolean mask to a tuple of one element, the plain list of the positions
\* where the mask is true; an integer array of dtype int becomes the plain
\* list of its elements; an integer array of another dtype and every index
\* that is not an array are passed on as they are.
C12_MaskBecomesTupleOfList ==
    Normalized =>
        /\ (idx_pc = "normalized" => idx_method = NoMethod)
        /\ (idx_i.kind = "ndarray" /\ idx_i.dtype = "bool") =>
              /\ idx_norm.kind = "tuple"
              /\ Len(idx_norm.items) = 1
              /\ idx_norm.items[1].kind = "list"
              /\ PositionsOf(idx_norm.items[1].items, idx_i.items)
        /\ (idx_i.kind = "ndarray" /\ idx_i.dtype = "int") =>
              /\ idx_norm.kind = "list"
              /\ idx_norm.items = idx_i.items
        /\ (idx_i.kind # "ndarray" \/ idx_i.dtype = "int16") =>
              /\ idx_norm.kind = idx_i.kind
              /\ idx_norm = idx_i

\* the mask [True, False, True] over a 3-element array became ([0, 2],) and
\* selected the first and the third element
C12_Witness ==
    /\ idx_pc = "done"
    /\ idx_data = PyArray("int", <<1, 2, 3>>)
    /\ idx_i = PyArray("bool", <<1, 0, 1>>)
    /\ idx_norm = PyTuple(<<PyList(<<0, 2>>)>>)
    /\ idx_result = PyArray("int", <<1, 3>>)

====
